---- MODULE Spec2Model ----
(***************************************************************************)
(* Model of src/src/encoding.c: the BOM table and its two lookups, the     *)
(* UTF-8 validation automaton, and the three Lua entry points              *)
(* f_detect_string, f_convert and f_get_charset_bom; and of Doc:save, the  *)
(* document wrapper of src/build.sh.  Bytes are the integers 0..255, byte  *)
(* buffers are sequences of bytes, charset names are strings.  iconv and   *)
(* uchardet are external primitives: iconv is modelled by its POSIX        *)
(* contract over two concrete charsets, uchardet by a nondeterministic     *)
(* answer.                                                                 *)
(*                                                                         *)
(* Spec runs the calls one at a time, PureSpec applies the table lookups   *)
(* and the validator to inputs of their own, ThreadSpec interleaves the    *)
(* calls of two threads, f_convert split at its open, at each iteration    *)
(* of its loop and at its return.                                          *)
(***************************************************************************)
EXTENDS Integers, Sequences, FiniteSets, TLC

VARIABLES call, iconv_handles, threads, sessions

vars == <<call, iconv_handles, threads, sessions>>

(***************************************************************************)
(* Bounds of the model.                                                    *)
(***************************************************************************)
\* longest run of arbitrary bytes appended to a buffer prefix
MaxTail == 2
\* longest text handed to convert
MaxText == 3
\* most iconv sessions that may be live at once before convert is no
\* longer called
MaxHandles == 2
\* longest byte string validated from UTF8_ACCEPT
MaxUtf8Len == 4
\* longest byte string validated from an arbitrary state
MaxStepLen == 2
\* most lines of a document
MaxLines == 2

\* a C NULL pointer / a Lua nil
NULL == "NULL"
NIL == "nil"

RECURSIVE SeqsUpTo(_, _)
SeqsUpTo(S, n) ==
  IF n = 0 THEN {<<>>}
  ELSE LET shorter == SeqsUpTo(S, n - 1)
       IN shorter \cup {Append(s, x) : s \in {t \in shorter : Len(t) = n - 1}, x \in S}

Range(s) == {s[i] : i \in 1..Len(s)}

Take(s, n) == SubSeq(s, 1, n)

Drop(s, n) == SubSeq(s, n + 1, Len(s))

(***************************************************************************)
(* bom_list (encoding.c:27-39).  bom is the 4-byte array of the struct,    *)
(* zero padded by the initializer; the last entry is the { NULL }          *)
(* terminator.                                                             *)
(***************************************************************************)
bom_list_utf16_first ==
  << [charset |-> "UTF-8",    bom |-> <<239, 187, 191, 0>>, len |-> 3],
     [charset |-> "UTF-16LE", bom |-> <<255, 254, 0, 0>>,   len |-> 2],
     [charset |-> "UTF-16BE", bom |-> <<254, 255, 0, 0>>,   len |-> 2],
     [charset |-> "UTF-32LE", bom |-> <<255, 254, 0, 0>>,   len |-> 4],
     [charset |-> "UTF-32BE", bom |-> <<0, 0, 254, 255>>,   len |-> 4],
     [charset |-> "GB18030",  bom |-> <<132, 49, 149, 51>>, len |-> 4],
     [charset |-> "UTF-7",    bom |-> <<43, 47, 118, 56>>,  len |-> 4],
     [charset |-> "UTF-7",    bom |-> <<43, 47, 118, 57>>,  len |-> 4],
     [charset |-> "UTF-7",    bom |-> <<43, 47, 118, 43>>,  len |-> 4],
     [charset |-> "UTF-7",    bom |-> <<43, 47, 118, 47>>,  len |-> 4],
     [charset |-> NULL,       bom |-> <<0, 0, 0, 0>>,       len |-> 0] >>

bom_list ==
  << [charset |-> "UTF-8",    bom |-> <<239, 187, 191, 0>>, len |-> 3],
     [charset |-> "UTF-32LE", bom |-> <<255, 254, 0, 0>>,   len |-> 4],
     [charset |-> "UTF-32BE", bom |-> <<0, 0, 254, 255>>,   len |-> 4],
     [charset |-> "UTF-16LE", bom |-> <<255, 254, 0, 0>>,   len |-> 2],
     [charset |-> "UTF-16BE", bom |-> <<254, 255, 0, 0>>,   len |-> 2],
     [charset |-> "GB18030",  bom |-> <<132, 49, 149, 51>>, len |-> 4],
     [charset |-> "UTF-7",    bom |-> <<43, 47, 118, 56>>,  len |-> 4],
     [charset |-> "UTF-7",    bom |-> <<43, 47, 118, 57>>,  len |-> 4],
     [charset |-> "UTF-7",    bom |-> <<43, 47, 118, 43>>,  len |-> 4],
     [charset |-> "UTF-7",    bom |-> <<43, 47, 118, 47>>,  len |-> 4],
     [charset |-> NULL,       bom |-> <<0, 0, 0, 0>>,       len |-> 0] >>

(***************************************************************************)
(* The UTF-8 automaton (encoding.c:54-89).  utf8d is indexed from 0 in C,  *)
(* hence the + 1.                                                          *)
(***************************************************************************)
UTF8_ACCEPT == 0
UTF8_REJECT == 1

utf8d_class12 ==
  <<
    0,0,0,0,0,0,0,0,0,0,0,0,0,0,0,0,0,0,0,0,0,0,0,0,0,0,0,0,0,0,0,0,  \* 00..1f
    0,0,0,0,0,0,0,0,0,0,0,0,0,0,0,0,0,0,0,0,0,0,0,0,0,0,0,0,0,0,0,0,  \* 20..3f
    0,0,0,0,0,0,0,0,0,0,0,0,0,0,0,0,0,0,0,0,0,0,0,0,0,0,0,0,0,0,0,0,  \* 40..5f
    0,0,0,0,0,0,0,0,0,0,0,0,0,0,0,0,0,0,0,0,0,0,0,0,0,0,0,0,0,0,0,0,  \* 60..7f
    1,1,1,1,1,1,1,1,1,1,1,1,1,1,1,1,9,9,9,9,9,9,9,9,9,9,9,9,9,9,9,9,  \* 80..9f
    7,7,7,7,7,7,7,7,7,7,7,7,7,7,7,7,7,7,7,7,7,7,7,7,7,7,7,7,7,7,7,7,  \* a0..bf
    8,8,2,2,2,2,2,2,2,2,2,2,2,2,2,2,2,2,2,2,2,2,2,2,2,2,2,2,2,2,2,2,  \* c0..df
    10,3,3,3,3,3,3,3,3,3,3,3,3,4,3,3,  \* e0..ef
    11,6,6,6,5,8,8,8,8,8,8,8,8,8,8,12,  \* f0..ff
    0,1,2,3,5,8,7,1,1,1,4,6,1,1,1,1,  \* s0..s0
    1,1,1,1,1,1,1,1,1,1,1,1,1,1,1,1,1,0,1,1,1,1,1,0,1,0,1,1,1,1,1,1,  \* s1..s2
    1,2,1,1,1,1,1,2,1,2,1,1,1,1,1,1,1,1,1,1,1,1,1,2,1,1,1,1,1,1,1,1,  \* s3..s4
    1,2,1,1,1,1,1,1,1,2,1,1,1,1,1,1,1,1,1,1,1,1,1,3,1,3,1,1,1,1,1,1,  \* s5..s6
    1,3,1,1,1,1,1,3,1,3,1,1,1,1,1,1,1,3,1,1,1,1,1,1,1,1,1,1,1,1,1,1  \* s7..s8
  >>

utf8d ==
  <<
    0,0,0,0,0,0,0,0,0,0,0,0,0,0,0,0,0,0,0,0,0,0,0,0,0,0,0,0,0,0,0,0,  \* 00..1f
    0,0,0,0,0,0,0,0,0,0,0,0,0,0,0,0,0,0,0,0,0,0,0,0,0,0,0,0,0,0,0,0,  \* 20..3f
    0,0,0,0,0,0,0,0,0,0,0,0,0,0,0,0,0,0,0,0,0,0,0,0,0,0,0,0,0,0,0,0,  \* 40..5f
    0,0,0,0,0,0,0,0,0,0,0,0,0,0,0,0,0,0,0,0,0,0,0,0,0,0,0,0,0,0,0,0,  \* 60..7f
    1,1,1,1,1,1,1,1,1,1,1,1,1,1,1,1,9,9,9,9,9,9,9,9,9,9,9,9,9,9,9,9,  \* 80..9f
    7,7,7,7,7,7,7,7,7,7,7,7,7,7,7,7,7,7,7,7,7,7,7,7,7,7,7,7,7,7,7,7,  \* a0..bf
    8,8,2,2,2,2,2,2,2,2,2,2,2,2,2,2,2,2,2,2,2,2,2,2,2,2,2,2,2,2,2,2,  \* c0..df
    10,3,3,3,3,3,3,3,3,3,3,3,3,4,3,3,  \* e0..ef
    11,6,6,6,5,8,8,8,8,8,8,8,8,8,8,8,  \* f0..ff
    0,1,2,3,5,8,7,1,1,1,4,6,1,1,1,1,  \* s0..s0
    1,1,1,1,1,1,1,1,1,1,1,1,1,1,1,1,1,0,1,1,1,1,1,0,1,0,1,1,1,1,1,1,  \* s1..s2
    1,2,1,1,1,1,1,2,1,2,1,1,1,1,1,1,1,1,1,1,1,1,1,2,1,1,1,1,1,1,1,1,  \* s3..s4
    1,2,1,1,1,1,1,1,1,2,1,1,1,1,1,1,1,1,1,1,1,1,1,3,1,3,1,1,1,1,1,1,  \* s5..s6
    1,3,1,1,1,1,1,3,1,3,1,1,1,1,1,1,1,3,1,1,1,1,1,1,1,1,1,1,1,1,1,1  \* s7..s8
  >>

RECURSIVE utf8_validate_from_stateless(_, _, _, _)
utf8_validate_from_stateless(i, state, str, len) ==
  IF i >= len THEN state
  ELSE LET type == utf8d[str[i + 1] + 1]
           next == utf8d[256 + type + 1]
       IN IF next = UTF8_REJECT THEN next
          ELSE utf8_validate_from_stateless(i + 1, next, str, len)

RECURSIVE utf8_validate_from(_, _, _, _)
utf8_validate_from(i, state, str, len) ==
  IF i >= len THEN state
  ELSE LET type == utf8d[str[i + 1] + 1]
           next == utf8d[256 + state * 16 + type + 1]
       IN IF next = UTF8_REJECT THEN next
          ELSE utf8_validate_from(i + 1, next, str, len)

utf8_validate_reset(state, str, len) ==
  utf8_validate_from(0, UTF8_ACCEPT, str, len)

utf8_validate(state, str, len) == utf8_validate_from(0, state, str, len)

\* the iterations of the loop of utf8_validate, one record for each byte
\* examined: its position, its class, the index read in the second part of
\* the table and the state stored
RECURSIVE utf8_validate_steps(_, _, _, _)
utf8_validate_steps(i, state, str, len) ==
  IF i >= len THEN <<>>
  ELSE LET type == utf8d[str[i + 1] + 1]
           index == 256 + state * 16 + type
           next == utf8d[index + 1]
       IN <<[i |-> i, type |-> type, index |-> index, state |-> next]>>
            \o (IF next = UTF8_REJECT THEN <<>>
                ELSE utf8_validate_steps(i + 1, next, str, len))

(***************************************************************************)
(* encoding_bom_from_charset (encoding.c:94-104): first entry whose name   *)
(* strcmp()s equal; the bytes are returned with their length.              *)
(***************************************************************************)
RECURSIVE bom_from_charset_at(_, _)
bom_from_charset_at(i, charset) ==
  IF bom_list[i].charset = NULL THEN [bom |-> <<>>, len |-> 0]
  ELSE IF bom_list[i].charset = charset
       THEN [bom |-> bom_list[i].bom, len |-> bom_list[i].len]
       ELSE bom_from_charset_at(i + 1, charset)

encoding_bom_from_charset(charset) == bom_from_charset_at(1, charset)

(***************************************************************************)
(* encoding_charset_from_bom (encoding.c:108-133): first entry, in table   *)
(* order, that is no longer than len and whose bytes all match.            *)
(***************************************************************************)
all_match(i, bytes) ==
  \A b \in 0..(bom_list[i].len - 1) : bytes[b + 1] = bom_list[i].bom[b + 1]

RECURSIVE charset_from_bom_at(_, _, _)
charset_from_bom_at(i, bytes, len) ==
  IF bom_list[i].charset = NULL THEN [charset |-> NULL, bom_len |-> 0]
  ELSE IF len >= bom_list[i].len /\ all_match(i, bytes)
       THEN [charset |-> bom_list[i].charset, bom_len |-> bom_list[i].len]
       ELSE charset_from_bom_at(i + 1, bytes, len)

encoding_charset_from_bom(string, len) == charset_from_bom_at(1, string, len)

(***************************************************************************)
(* f_get_charset_bom (encoding.c:253-258): lua_pushlstring(bom, bom_len).  *)
(***************************************************************************)
f_get_charset_bom_full(charset) == encoding_bom_from_charset(charset).bom

f_get_charset_bom(charset) ==
  LET r == encoding_bom_from_charset(charset)
  IN Take(r.bom, r.len)

(***************************************************************************)
(* f_detect_string (encoding.c:148-169).                                   *)
(*                                                                         *)
(* string_len is initialised to 0 on line 149 and line 150 calls           *)
(* luaL_checklstring without a length out-parameter, so nothing ever       *)
(* stores the length of the argument in it.                                *)
(*                                                                         *)
(* The result is the list of Lua values the call hands back, the line of   *)
(* the return statement taken, and the helper and library calls made on    *)
(* the way.  ud is what uchardet_get_charset answers for the buffer.       *)
(* Line 152 is written `return "UTF-8"`: it is read as handing back the    *)
(* one value "UTF-8".  No return of the function hands back a boolean;     *)
(* utf8_validate is not called, and bom_charset is not read after line     *)
(* 155.                                                                    *)
(***************************************************************************)
detect_string_len_measured(string) == Len(string)

detect_string_len(string) == 0

uchardet_calls ==
  << "uchardet_new", "uchardet_handle_data", "uchardet_data_end",
     "uchardet_get_charset", "uchardet_delete" >>

f_detect_string(string, ud) ==
  LET string_len == detect_string_len(string)
  IN IF string_len = 0
     THEN [ret |-> <<"UTF-8">>, line |-> 152, calls |-> <<>>]
     ELSE LET bom_charset == encoding_charset_from_bom(string, string_len)
              charset == ud
              calls == <<"encoding_charset_from_bom">> \o uchardet_calls
          IN IF charset # NULL
             THEN [ret |-> <<charset>>, line |-> 168, calls |-> calls]
             ELSE [ret |-> <<NIL, "could not detect the file encoding">>,
                   line |-> 166, calls |-> calls]

(***************************************************************************)
(* The conversion primitive.  iconv_open, iconv and iconv_close are the    *)
(* library calls of encoding.c:213, 228 and 230; they are modelled by      *)
(* their POSIX contract for the two charsets below.  One iconv call        *)
(* converts whole characters until the input is used up (success), the     *)
(* next character does not fit in the output buffer (E2BIG), the input is  *)
(* malformed or has no representation in the target (EILSEQ), or the input *)
(* ends inside a character (EINVAL); in the three failing cases it returns *)
(* -1 with the input pointer left at the offending character.              *)
(***************************************************************************)
iconv_charsets == {"UTF-8", "ISO-8859-1"}

iconv_open(to, from) ==
  IF to \in iconv_charsets /\ from \in iconv_charsets THEN "conv" ELSE "-1"

IsCont(b) == b >= 128 /\ b <= 191

utf8_need(b) ==
  IF b < 128 THEN 0
  ELSE IF b >= 194 /\ b <= 223 THEN 1
  ELSE IF b >= 224 /\ b <= 239 THEN 2
  ELSE IF b >= 240 /\ b <= 244 THEN 3
  ELSE -1

utf8_second_ok(b, c) ==
  IF b = 224 THEN c >= 160 /\ c <= 191
  ELSE IF b = 237 THEN c >= 128 /\ c <= 159
  ELSE IF b = 240 THEN c >= 144 /\ c <= 191
  ELSE IF b = 244 THEN c >= 128 /\ c <= 143
  ELSE IsCont(c)

utf8_value(s, need) ==
  IF need = 0 THEN s[1]
  ELSE IF need = 1 THEN (s[1] - 192) * 64 + (s[2] - 128)
  ELSE IF need = 2
       THEN (s[1] - 224) * 4096 + (s[2] - 128) * 64 + (s[3] - 128)
  ELSE (s[1] - 240) * 262144 + (s[2] - 128) * 4096
         + (s[3] - 128) * 64 + (s[4] - 128)

\* decode the character at the head of the non-empty input s
mbtowc(from, s) ==
  IF from = "ISO-8859-1" THEN [n |-> 1, wc |-> s[1], err |-> ""]
  ELSE LET need == utf8_need(s[1])
           have == IF Len(s) - 1 < need THEN Len(s) - 1 ELSE need
       IN IF need = -1 THEN [n |-> 0, wc |-> 0, err |-> "EILSEQ"]
          ELSE IF have >= 1 /\ ~utf8_second_ok(s[1], s[2])
               THEN [n |-> 0, wc |-> 0, err |-> "EILSEQ"]
          ELSE IF \E k \in 3..(have + 1) : ~IsCont(s[k])
               THEN [n |-> 0, wc |-> 0, err |-> "EILSEQ"]
          ELSE IF have < need THEN [n |-> 0, wc |-> 0, err |-> "EINVAL"]
          ELSE [n |-> need + 1, wc |-> utf8_value(s, need), err |-> ""]

\* encode the character wc; an empty result means it has no representation
wctomb(to, wc) ==
  IF to = "ISO-8859-1" THEN (IF wc < 256 THEN <<wc>> ELSE <<>>)
  ELSE IF wc < 128 THEN <<wc>>
  ELSE IF wc < 2048 THEN <<192 + (wc \div 64), 128 + (wc % 64)>>
  ELSE IF wc < 65536
       THEN <<224 + (wc \div 4096), 128 + ((wc \div 64) % 64), 128 + (wc % 64)>>
  ELSE <<240 + (wc \div 262144), 128 + ((wc \div 4096) % 64),
         128 + ((wc \div 64) % 64), 128 + (wc % 64)>>

RECURSIVE iconv_run(_, _, _, _, _)
iconv_run(to, from, inbuf, out, outbytesleft) ==
  IF Len(inbuf) = 0 THEN [inbuf |-> inbuf, out |-> out, errno |-> ""]
  ELSE LET d == mbtowc(from, inbuf)
           e == wctomb(to, d.wc)
       IN IF d.err # "" THEN [inbuf |-> inbuf, out |-> out, errno |-> d.err]
          ELSE IF Len(e) = 0
               THEN [inbuf |-> inbuf, out |-> out, errno |-> "EILSEQ"]
          ELSE IF Len(e) > outbytesleft
               THEN [inbuf |-> inbuf, out |-> out, errno |-> "E2BIG"]
          ELSE iconv_run(to, from, Drop(inbuf, d.n), out \o e,
                         outbytesleft - Len(e))

\* the number of leading bytes of inbuf below 128: each is one character
\* that both charsets write back as the same single byte
ascii_run(inbuf) ==
  LET high == {i \in 1..Len(inbuf) : inbuf[i] >= 128}
  IN IF high = {} THEN Len(inbuf)
     ELSE (CHOOSE i \in high : \A j \in high : i <= j) - 1

\* the leading ASCII run is converted in one piece (as much of it as the
\* output buffer holds), the rest character by character
iconv(to, from, inbuf, outbytesleft) ==
  LET k == ascii_run(inbuf)
      n == IF k < outbytesleft THEN k ELSE outbytesleft
  IN IF n < k
     THEN [inbuf |-> Drop(inbuf, n), out |-> Take(inbuf, n), errno |-> "E2BIG"]
     ELSE iconv_run(to, from, Drop(inbuf, k), Take(inbuf, k), outbytesleft - k)

(***************************************************************************)
(* f_convert (encoding.c:187-239).                                         *)
(*                                                                         *)
(* opts is the fourth argument: given is lua_gettop(L) > 3 and             *)
(* lua_istable(L, 4), strict is the table's "strict" field ("true",        *)
(* "false", or "nil" for anything that is not a boolean).                  *)
(* handle_to_bom and handle_from_bom are read the same way on lines        *)
(* 200-207 and never used afterwards.                                      *)
(*                                                                         *)
(* The result records the values handed back (ok: the converted string;    *)
(* otherwise nil and msg), the return line, how many sessions the call     *)
(* opened and closed, and the errno of every iconv call it made.           *)
(***************************************************************************)
\* char buffer[4096]
sizeof_buffer == 4096

convert_strict(opts) ==
  IF opts.given /\ opts.strict \in {"true", "false"}
  THEN opts.strict = "true"
  ELSE FALSE

\* the loop with the skip-one-byte policy: an encoding error drops the byte
\* at the failure point and feeding resumes; a full output buffer is
\* emptied and feeding resumes
RECURSIVE convert_loop_skip(_, _, _, _, _)
convert_loop_skip(to, from, inbuf, b, errnos) ==
  IF ~(Len(inbuf) > 0)
  THEN [ok |-> TRUE, out |-> b, msg |-> "", line |-> 238,
        opened |-> 1, closed |-> 0, errnos |-> errnos]
  ELSE LET r == iconv(to, from, inbuf, sizeof_buffer)
       IN convert_loop_skip(to, from,
                            IF r.errno \in {"EILSEQ", "EINVAL"}
                            THEN Drop(r.inbuf, 1) ELSE r.inbuf,
                            b \o r.out, Append(errnos, r.errno))

RECURSIVE convert_loop(_, _, _, _, _)
convert_loop(to, from, inbuf, b, errnos) ==
  IF ~(Len(inbuf) > 0)
  THEN [ok |-> TRUE, out |-> b, msg |-> "", line |-> 238,
        opened |-> 1, closed |-> 0, errnos |-> errnos]
  ELSE LET r == iconv(to, from, inbuf, sizeof_buffer)
       IN IF r.errno # ""
          THEN [ok |-> FALSE, out |-> <<>>,
                msg |-> "illegal multibyte sequence", line |-> 233,
                opened |-> 1, closed |-> 1,
                errnos |-> Append(errnos, r.errno)]
          ELSE convert_loop(to, from, r.inbuf, b \o r.out,
                            Append(errnos, r.errno))

\* one iteration of the loop of lines 224-236: the iconv call, then either
\* the error return (the session is closed) or the output appended to b
convert_iter_retry(to, from, inbuf, b) ==
  LET r == iconv(to, from, inbuf, sizeof_buffer)
  IN [returned |-> FALSE, inbuf |-> r.inbuf, b |-> b \o r.out,
      closed |-> FALSE]

convert_iter(to, from, inbuf, b) ==
  LET r == iconv(to, from, inbuf, sizeof_buffer)
  IN IF r.errno # ""
     THEN [returned |-> TRUE, inbuf |-> r.inbuf, b |-> b, closed |-> TRUE]
     ELSE [returned |-> FALSE, inbuf |-> r.inbuf, b |-> b \o r.out,
           closed |-> FALSE]

f_convert_unchecked(to, from, text, opts) ==
  convert_loop(to, from, text, <<>>, <<>>)

f_convert(to, from, text, opts) ==
  LET strict == convert_strict(opts)
      conv == iconv_open(to, from)
  IN IF conv = "-1"
     THEN [ok |-> FALSE, out |-> <<>>, msg |-> "errstr(EINVAL)", line |-> 217,
           opened |-> 0, closed |-> 0, errnos |-> <<>>]
     ELSE convert_loop(to, from, text, <<>>, <<>>)

(***************************************************************************)
(* Doc:save (build.sh:248-259), the editor's save wrapped with the         *)
(* encoding of the lines.  self is the document: lines (a list of byte     *)
(* strings), encoding (a charset name or nil) and bom (whether self.bom    *)
(* is set).  save is what the wrapped old_doc_save does: "ok" or "raise".  *)
(*                                                                         *)
(* The result tells whether the call raised, what self.lines is when it    *)
(* is left, whether the wrapped save ran and the self.lines it saw, and    *)
(* the sessions the convert calls left open.                               *)
(***************************************************************************)
doc_save_restore_on_success(old_lines, encoded_lines, status) ==
  IF status THEN old_lines ELSE encoded_lines

\* line 256, reached whatever pcall returned
doc_save_restore(old_lines, encoded_lines, status) == old_lines

\* lines 250-252: one strict encoding.convert call for each line
encode_lines(self) ==
  [i \in 1..Len(self.lines) |->
     f_convert(self.encoding, "UTF-8", self.lines[i],
               [given |-> TRUE, strict |-> "true"])]

\* lines 249-258, conv being what the calls of lines 250-252 returned
Doc_save_with(self, save, conv) ==
  LET old_lines == self.lines
      n == Len(self.lines)
      converts == self.encoding # NIL /\ self.encoding # "UTF-8"
      failed == {i \in 1..n : converts /\ ~conv[i].ok}
      \* ipairs stops at the line whose assert raises
      last == IF failed = {} THEN n
              ELSE CHOOSE i \in failed : \A j \in failed : i <= j
      leaked == IF converts
                THEN Cardinality({i \in 1..last :
                                   conv[i].opened > conv[i].closed})
                ELSE 0
      encoded_lines == [i \in 1..n |->
                          IF converts THEN conv[i].out ELSE self.lines[i]]
      \* line 253: encoding.bom(nil) and bom .. nil both raise
      bom_raises == self.bom /\ (self.encoding = NIL \/ n = 0)
      with_bom == IF self.bom /\ ~bom_raises
                  THEN [encoded_lines EXCEPT
                          ![1] = f_get_charset_bom(self.encoding) \o @]
                  ELSE encoded_lines
  IN IF failed # {} \/ bom_raises
     THEN [raised |-> TRUE, lines |-> self.lines, saved |-> FALSE,
           seen |-> <<>>, leaked |-> leaked]
     ELSE [raised |-> save = "raise",
           lines |-> doc_save_restore(old_lines, with_bom, save = "ok"),
           saved |-> TRUE, seen |-> with_bom, leaked |-> leaked]

Doc_save(self, save) == Doc_save_with(self, save, encode_lines(self))

(***************************************************************************)
(* Inputs.                                                                 *)
(***************************************************************************)
\* every signature of the table, and proper prefixes of some of them
BufferPrefixes ==
  {Take(bom_list[i].bom, bom_list[i].len) : i \in 1..(Len(bom_list) - 1)}
    \cup {<<>>, <<239, 187>>, <<255>>, <<0, 0, 254>>, <<43, 47, 118>>}

TailBytes == {0, 65, 169, 195, 255}

Buffers == {p \o t : p \in BufferPrefixes, t \in SeqsUpTo(TailBytes, MaxTail)}

\* uchardet_get_charset: a NULL pointer, the empty name uchardet gives when
\* it cannot tell, or a name
UdAnswers == {NULL, "", "WINDOWS-1251", "UTF-8"}

TextBytes == {65, 169, 195, 196, 255}

\* a text one byte longer than the working buffer, whose conversion does
\* not fit in it
LongText == [i \in 1..(sizeof_buffer + 1) |-> 65]

\* one byte of each of the twelve classes of utf8d
Utf8Bytes == {65, 128, 144, 160, 192, 194, 224, 225, 237, 240, 241, 244}

Utf8Strings == SeqsUpTo(Utf8Bytes, MaxUtf8Len)

\* every single byte, and short runs of the class representatives
Utf8StepStrings ==
  {<<b>> : b \in 0..255} \cup SeqsUpTo(Utf8Bytes, MaxStepLen)

\* the states of the automaton
Utf8States == 0..8

\* lines of a document, held as UTF-8: empty, ASCII, a character Latin-1
\* has, a character it does not have
DocLines == {<<>>, <<65>>, <<195, 169>>, <<196, 128>>}

Docs ==
  [lines : SeqsUpTo(DocLines, MaxLines),
   encoding : {NIL, "UTF-8", "ISO-8859-1", "INVALID-NAME"},
   bom : BOOLEAN]

Texts == SeqsUpTo(TextBytes, MaxText) \cup {LongText}

CharsetNames == iconv_charsets \cup {"INVALID-NAME"}

ConvertOptions ==
  {[given |-> FALSE, strict |-> NIL]}
    \cup {[given |-> TRUE, strict |-> s] : s \in {"true", "false", NIL}}

BomNames ==
  {bom_list[i].charset : i \in 1..(Len(bom_list) - 1)}
    \cup {"utf-8", "Utf-16le", "WINDOWS-1251", ""}

(***************************************************************************)
(* The state machine.  The caller makes one call at a time: call is the    *)
(* call in progress with what it returned, [op |-> "none"] between calls;  *)
(* iconv_handles counts the conversion sessions that are open.             *)
(***************************************************************************)
Idle == call.op = "none"

\* the two concurrent callers
Threads == {1, 2}

IdleThread ==
  [pc |-> "idle", op |-> "none", args |-> <<>>, conv |-> 0, inbuf |-> <<>>,
   b |-> <<>>, fed |-> {}, iters |-> 0, ret |-> <<>>]

Init ==
  /\ call = [op |-> "none"]
  /\ iconv_handles = 0
  /\ threads = [p \in Threads |-> IdleThread]
  /\ sessions = <<>>

Detect ==
  /\ Idle
  /\ \E string \in Buffers, ud \in UdAnswers :
    LET r == f_detect_string(string, ud)
    IN /\ call' = [op |-> "detect", string |-> string, ud |-> ud,
                   ret |-> r.ret, line |-> r.line, calls |-> r.calls]
       /\ UNCHANGED <<iconv_handles, threads, sessions>>

Convert ==
  /\ Idle
  /\ iconv_handles < MaxHandles
  /\ \E to \in CharsetNames, from \in CharsetNames,
        text \in Texts, opts \in ConvertOptions :
       LET r == f_convert(to, from, text, opts)
       IN /\ call' = [op |-> "convert", to |-> to, from |-> from,
                      text |-> text, opts |-> opts,
                      strict |-> convert_strict(opts),
                      ok |-> r.ok, out |-> r.out, msg |-> r.msg,
                      line |-> r.line, opened |-> r.opened,
                      closed |-> r.closed, errnos |-> r.errnos]
          /\ iconv_handles' = iconv_handles + r.opened - r.closed
          /\ UNCHANGED <<threads, sessions>>

Bom ==
  /\ Idle
  /\ \E charset \in BomNames :
    /\ call' = [op |-> "bom", charset |-> charset,
                ret |-> f_get_charset_bom(charset)]
    /\ UNCHANGED <<iconv_handles, threads, sessions>>

\* encoding_charset_from_bom applied to a whole buffer
MatchBom ==
  /\ Idle
  /\ \E string \in Buffers :
    LET r == encoding_charset_from_bom(string, Len(string))
    IN /\ call' = [op |-> "match_bom", string |-> string,
                   charset |-> r.charset, bom_len |-> r.bom_len]
       /\ UNCHANGED <<iconv_handles, threads, sessions>>

\* the signature f_get_charset_bom gives, put in front of tail and looked up
BomRoundTrip ==
  /\ Idle
  /\ \E charset \in BomNames, tail \in SeqsUpTo(TailBytes, MaxTail) :
    LET sig == f_get_charset_bom(charset)
        r == encoding_charset_from_bom(sig \o tail, Len(sig \o tail))
    IN /\ call' = [op |-> "bom_round_trip", charset |-> charset,
                   bom |-> sig, tail |-> tail, matched |-> r.charset]
       /\ UNCHANGED <<iconv_handles, threads, sessions>>

\* utf8_validate run over a whole buffer from UTF8_ACCEPT
Utf8Validate ==
  /\ Idle
  /\ \E str \in Buffers \cup Utf8Strings :
    /\ call' = [op |-> "utf8_validate", str |-> str,
                state |-> utf8_validate(UTF8_ACCEPT, str, Len(str))]
    /\ UNCHANGED <<iconv_handles, threads, sessions>>

\* utf8_validate resumed from any state of the automaton
Utf8ValidateFrom ==
  /\ Idle
  /\ \E start \in Utf8States, str \in Utf8StepStrings :
    /\ call' = [op |-> "utf8_validate_from", start |-> start, str |-> str,
                state |-> utf8_validate(start, str, Len(str)),
                steps |-> utf8_validate_steps(0, start, str, Len(str))]
    /\ UNCHANGED <<iconv_handles, threads, sessions>>

\* convert(X, Y, convert(Y, X, bytes)) with strict = true: the text goes
\* from X to Y and, when that succeeded, back from Y to X
ConvertRoundTrip ==
  /\ Idle
  /\ iconv_handles < MaxHandles
  /\ \E X \in CharsetNames, Y \in CharsetNames, bytes \in Texts :
       LET opts == [given |-> TRUE, strict |-> "true"]
           inner == f_convert(Y, X, bytes, opts)
           outer == IF inner.ok THEN f_convert(X, Y, inner.out, opts)
                    ELSE [ok |-> FALSE, out |-> <<>>, opened |-> 0,
                          closed |-> 0]
       IN /\ call' = [op |-> "convert_round_trip", X |-> X, Y |-> Y,
                      bytes |-> bytes, inner_ok |-> inner.ok,
                      inner_out |-> inner.out, outer_ok |-> outer.ok,
                      outer_out |-> outer.out]
          /\ iconv_handles' = iconv_handles + inner.opened - inner.closed
                                + outer.opened - outer.closed
          /\ UNCHANGED <<threads, sessions>>

DocSave ==
  /\ Idle
  /\ iconv_handles < MaxHandles
  /\ \E self \in Docs, save \in {"ok", "raise"} :
       \E r \in {Doc_save(self, save)} :
          /\ call' = [op |-> "doc_save", self |-> self, save |-> save,
                      raised |-> r.raised, lines |-> r.lines,
                      saved |-> r.saved, seen |-> r.seen]
          /\ iconv_handles' = iconv_handles + r.leaked
          /\ UNCHANGED <<threads, sessions>>

\* the caller takes the result; the next call can be made
Return ==
  /\ ~Idle
  /\ call' = [op |-> "none"]
  /\ UNCHANGED <<iconv_handles, threads, sessions>>

\* the calls of the Lua interface and of the document wrapper
Next ==
  \/ Return
  \/ Detect
  \/ Convert
  \/ Bom
  \/ ConvertRoundTrip
  \/ DocSave

Spec == Init /\ [][Next]_vars

\* the table lookups and the validator, applied to inputs of their own
PureNext ==
  \/ Return
  \/ MatchBom
  \/ BomRoundTrip
  \/ Utf8Validate
  \/ Utf8ValidateFrom

PureSpec == Init /\ [][PureNext]_vars

(***************************************************************************)
(* Two threads, each making one call, interleaved statement by statement.  *)
(* detect and bom touch nothing but their arguments and bom_list and are   *)
(* one step each; convert is the open (lines 188-223), one step for each   *)
(* iteration of the loop (lines 224-236) and the final return (lines       *)
(* 237-238).  sessions is the library's table of conversion descriptors,   *)
(* in the order they were opened, with the thread that opened each.        *)
(***************************************************************************)
ThreadDetectArgs ==
  [string : {<<65>>, <<255, 254>>}, ud : {NULL, "WINDOWS-1251"}]

ThreadBomArgs == [charset : {"UTF-16LE", "utf-8"}]

\* <<to, from>>
ThreadPairs ==
  { <<"UTF-8", "UTF-8">>, <<"ISO-8859-1", "UTF-8">>,
    <<"UTF-8", "ISO-8859-1">>, <<"UTF-8", "INVALID-NAME">> }

\* all bytes illegal, a legal byte then an illegal one, one two-byte
\* character
ThreadTexts == {<<255, 255>>, <<65, 255>>, <<195, 169>>}

ThreadOptions ==
  {[given |-> TRUE, strict |-> s] : s \in {"true", "false"}}

\* the short texts under every pair, and the text that fills the buffer
ThreadConvertArgs ==
  {[to |-> pr[1], from |-> pr[2], text |-> t, opts |-> o] :
     pr \in ThreadPairs, t \in ThreadTexts, o \in ThreadOptions}
    \cup {[to |-> "UTF-8", from |-> "UTF-8", text |-> LongText, opts |-> o] :
            o \in ThreadOptions}

\* a descriptor kept in a static variable would be the last one opened
thread_conv_static(p) == Len(sessions)

\* iconv_t conv is a local of f_convert (line 213)
thread_conv(p) == threads[p].conv

TCallDetect(p) ==
  /\ threads[p].pc = "idle"
  /\ \E a \in ThreadDetectArgs :
       threads' = [threads EXCEPT ![p] =
                     [IdleThread EXCEPT !.pc = "detect", !.op = "detect",
                                        !.args = a]]
  /\ UNCHANGED <<call, iconv_handles, sessions>>

TCallBom(p) ==
  /\ threads[p].pc = "idle"
  /\ \E a \in ThreadBomArgs :
       threads' = [threads EXCEPT ![p] =
                     [IdleThread EXCEPT !.pc = "bom", !.op = "bom",
                                        !.args = a]]
  /\ UNCHANGED <<call, iconv_handles, sessions>>

TCallConvert(p) ==
  /\ threads[p].pc = "idle"
  /\ \E a \in ThreadConvertArgs :
       threads' = [threads EXCEPT ![p] =
                     [IdleThread EXCEPT !.pc = "convert_open",
                                        !.op = "convert", !.args = a]]
  /\ UNCHANGED <<call, iconv_handles, sessions>>

TDetect(p) ==
  /\ threads[p].pc = "detect"
  /\ threads' = [threads EXCEPT ![p] =
                   [@ EXCEPT !.pc = "done",
                             !.ret = f_detect_string(threads[p].args.string,
                                                     threads[p].args.ud).ret]]
  /\ UNCHANGED <<call, iconv_handles, sessions>>

TBom(p) ==
  /\ threads[p].pc = "bom"
  /\ threads' = [threads EXCEPT ![p] =
                   [@ EXCEPT !.pc = "done",
                             !.ret = f_get_charset_bom(threads[p].args.charset)]]
  /\ UNCHANGED <<call, iconv_handles, sessions>>

TConvertOpen(p) ==
  /\ threads[p].pc = "convert_open"
  /\ LET a == threads[p].args
     IN IF iconv_open(a.to, a.from) = "-1"
        THEN /\ threads' = [threads EXCEPT ![p] =
                              [@ EXCEPT !.pc = "done",
                                        !.ret = [ok |-> FALSE, out |-> <<>>,
                                                 msg |-> "errstr(EINVAL)"]]]
             /\ UNCHANGED <<iconv_handles, sessions>>
        ELSE /\ sessions' = Append(sessions, [to |-> a.to, from |-> a.from,
                                              open |-> TRUE, owner |-> p])
             /\ iconv_handles' = iconv_handles + 1
             /\ threads' = [threads EXCEPT ![p] =
                              [@ EXCEPT !.pc = "convert_loop",
                                        !.conv = Len(sessions) + 1,
                                        !.inbuf = a.text]]
  /\ UNCHANGED call

TConvertIter(p) ==
  /\ threads[p].pc = "convert_loop"
  /\ Len(threads[p].inbuf) > 0
  /\ LET cd == thread_conv(p)
         r == convert_iter(sessions[cd].to, sessions[cd].from,
                           threads[p].inbuf, threads[p].b)
     IN /\ threads' = [threads EXCEPT ![p] =
                         [@ EXCEPT !.inbuf = r.inbuf,
                                   !.b = r.b,
                                   !.fed = @ \cup {cd},
                                   !.iters = @ + 1,
                                   !.pc = IF r.returned THEN "done" ELSE @,
                                   !.ret = IF r.returned
                                           THEN [ok |-> FALSE, out |-> <<>>,
                                                 msg |-> "illegal multibyte sequence"]
                                           ELSE @]]
        /\ sessions' = IF r.closed
                       THEN [sessions EXCEPT ![cd].open = FALSE]
                       ELSE sessions
        /\ iconv_handles' = IF r.closed THEN iconv_handles - 1
                            ELSE iconv_handles
  /\ UNCHANGED call

TConvertFinish(p) ==
  /\ threads[p].pc = "convert_loop"
  /\ ~(Len(threads[p].inbuf) > 0)
  /\ threads' = [threads EXCEPT ![p] =
                   [@ EXCEPT !.pc = "done",
                             !.ret = [ok |-> TRUE, out |-> threads[p].b, msg |-> ""]]]
  /\ UNCHANGED <<call, iconv_handles, sessions>>

\* the statements of a call once it is made
TStep(p) ==
  \/ TDetect(p)
  \/ TBom(p)
  \/ TConvertOpen(p)
  \/ TConvertIter(p)
  \/ TConvertFinish(p)

ThreadNext ==
  \E p \in Threads :
    \/ TCallDetect(p)
    \/ TCallBom(p)
    \/ TCallConvert(p)
    \/ TDetect(p)
    \/ TBom(p)
    \/ TConvertOpen(p)
    \/ TConvertIter(p)
    \/ TConvertFinish(p)

\* a thread that is inside a call keeps running it
ThreadSpec ==
  /\ Init
  /\ [][ThreadNext]_vars
  /\ \A p \in Threads : WF_vars(TStep(p))

(***************************************************************************)
(* Properties.                                                             *)
(***************************************************************************)
\* the table entries whose signature the buffer starts with
SignaturesAtStart(string) ==
  {i \in 1..(Len(bom_list) - 1) :
     /\ bom_list[i].len <= Len(string)
     /\ Take(string, bom_list[i].len) = Take(bom_list[i].bom, bom_list[i].len)}

TableCharsets == {bom_list[i].charset : i \in 1..(Len(bom_list) - 1)}

\* the BOM flag as the caller reads it: the second value handed back, nil
\* or false counting as false
BomFlag(ret) == Len(ret) >= 2 /\ ret[2] \notin {NIL, "false"}

LenientValid(string) ==
  utf8_validate(UTF8_ACCEPT, string, Len(string)) # UTF8_REJECT

DetectorConsulted(calls) == "uchardet_get_charset" \in Range(calls)

EncodingErrors == {"EILSEQ", "EINVAL"}

\* C1: a non-empty buffer that starts with exactly one signature of the
\* table is detected as that signature's charset with the BOM flag true,
\* whatever follows and whatever the detector would answer.
C1_BomIsAuthoritative ==
  (/\ call.op = "detect"
   /\ Len(call.string) > 0
   /\ Cardinality(SignaturesAtStart(call.string)) = 1)
    => \E i \in SignaturesAtStart(call.string) :
         call.ret = <<bom_list[i].charset, "true">>

C3_DetectorFallback ==
  call.op = "detect" =>
    LET fallback == /\ Len(call.string) > 0
                    /\ SignaturesAtStart(call.string) = {}
                    /\ ~LenientValid(call.string)
    IN /\ fallback =>
            /\ DetectorConsulted(call.calls)
            /\ IF call.ud \notin {NULL, ""}
               THEN call.ret[1] = call.ud /\ ~BomFlag(call.ret)
               ELSE /\ call.ret[1] = NIL
                    /\ Len(call.ret) = 2
                    /\ call.ret[2] # ""
       /\ DetectorConsulted(call.calls) => fallback

\* C4: in strict mode an encoding error reported by the session, wherever
\* in the input, ends the call at once with the illegal-sequence failure
\* and none of the output.
C4_StrictAborts ==
  (/\ call.op = "convert"
   /\ call.strict
   /\ \E i \in 1..Len(call.errnos) : call.errnos[i] \in EncodingErrors)
    => /\ ~call.ok
       /\ call.msg = "illegal multibyte sequence"
       /\ call.out = <<>>
       /\ \A i \in 1..(Len(call.errnos) - 1) :
            call.errnos[i] \notin EncodingErrors

\* a strict conversion that fails after a first character was converted
C4_Witness ==
  /\ call.op = "convert"
  /\ call.strict
  /\ call.from = "UTF-8"
  /\ call.to = "ISO-8859-1"
  /\ call.text = <<65, 255, 65>>
  /\ call.errnos = <<"EILSEQ">>
  /\ ~call.ok

\* C5: without strict (also with no options) a conversion whose session
\* opened never fails on an illegal sequence; its output is that of
\* dropping one byte at each failure point and going on.
C5_LenientNeverFails ==
  (/\ call.op = "convert"
   /\ ~call.strict
   /\ call.to \in iconv_charsets
   /\ call.from \in iconv_charsets)
    => /\ call.ok
       /\ call.out
            = convert_loop_skip(call.to, call.from, call.text, <<>>, <<>>).out

\* C6: every session a convert call opens is closed exactly once before it
\* returns, so no session is ever left open.
C6_SessionAlwaysClosed ==
  /\ iconv_handles = 0
  /\ call.op = "convert" => call.closed = call.opened

\* C7: the lookup returns the first entry in table order whose signature
\* fits in the buffer and equals its leading bytes, with the signature's
\* length, and nothing with length 0 when there is none; a buffer starting
\* FF FE 00 00 is UTF-32LE with length 4.
C7_FirstMatchInTableOrder ==
  call.op = "match_bom" =>
    LET M == SignaturesAtStart(call.string)
    IN /\ M = {} => call.charset = NULL /\ call.bom_len = 0
       /\ M # {} =>
            LET i == CHOOSE j \in M : \A k \in M : j <= k
            IN /\ call.charset = bom_list[i].charset
               /\ call.bom_len = bom_list[i].len
       /\ (Len(call.string) >= 4 /\ Take(call.string, 4) = <<255, 254, 0, 0>>)
            => call.charset = "UTF-32LE" /\ call.bom_len = 4

C7_Witness ==
  /\ call.op = "match_bom"
  /\ Len(call.string) > 4
  /\ Take(call.string, 4) = <<255, 254, 0, 0>>
  /\ call.charset = "UTF-32LE"

\* C8 as stated: for a charset of the table, a buffer that starts with its
\* signature and goes on with any bytes is matched as that charset; for a
\* name not in the table the signature is empty.
C8_RoundTripAnyTail ==
  call.op = "bom_round_trip" =>
    IF call.charset \in TableCharsets
    THEN call.matched = call.charset
    ELSE call.bom = <<>>

\* C8 amended: the same, except that the UTF-16LE signature followed by
\* 00 00 is matched as UTF-32LE.
C8_RoundTripExceptUtf32 ==
  call.op = "bom_round_trip" =>
    IF call.charset \in TableCharsets
    THEN IF /\ call.charset = "UTF-16LE"
            /\ Len(call.tail) >= 2
            /\ Take(call.tail, 2) = <<0, 0>>
         THEN call.matched = "UTF-32LE"
         ELSE call.matched = call.charset
    ELSE call.bom = <<>>

C8_Witness ==
  /\ call.op = "bom_round_trip"
  /\ call.charset = "UTF-16LE"
  /\ call.bom = <<255, 254>>
  /\ call.tail = <<0, 0>>
  /\ call.matched = "UTF-32LE"

\* C9: when the session cannot be opened for the pair of names, convert
\* fails at once with the open error: nothing is fed, no output comes back
\* and no session is open.
C9_OpenFailure ==
  (/\ call.op = "convert"
   /\ (call.to \notin iconv_charsets \/ call.from \notin iconv_charsets))
    => /\ ~call.ok
       /\ call.line = 217
       /\ call.msg = "errstr(EINVAL)"
       /\ call.errnos = <<>>
       /\ call.out = <<>>
       /\ call.opened = 0
       /\ call.closed = 0

C9_Witness ==
  /\ call.op = "convert"
  /\ call.to = "UTF-8"
  /\ call.from = "INVALID-NAME"
  /\ call.text = <<65>>
  /\ ~call.ok
  /\ call.line = 217

\* C10: the empty buffer is detected as UTF-8 with the flag false and with
\* no lookup, validation or detector call; and the empty-input return is
\* taken only when the buffer has length zero.
C10_EmptyBranchOnlyForEmpty ==
  call.op = "detect" =>
    /\ Len(call.string) = 0 =>
         /\ call.ret[1] = "UTF-8"
         /\ ~BomFlag(call.ret)
         /\ call.calls = <<>>
    /\ call.line = 152 => Len(call.string) = 0

\* what the session makes of the whole text when the output is never full
Unbounded(to, from, text) == iconv(to, from, text, 4 * Len(text) + 1)

\* C11: the result of convert does not depend on the capacity of the
\* working buffer: a text that converts without encoding error succeeds
\* and gives what one conversion into an unbounded buffer gives, also when
\* the output is larger than the buffer; a full buffer is not an error.
C11_BufferSizeIndependent ==
  (/\ call.op = "convert"
   /\ call.to \in iconv_charsets
   /\ call.from \in iconv_charsets
   /\ Unbounded(call.to, call.from, call.text).errno = "")
    => /\ call.ok
       /\ call.out = Unbounded(call.to, call.from, call.text).out

\* the continuation-counting machine: the number of continuation bytes
\* still awaited after bytes[i..], or -1 once a byte is refused
RECURSIVE CountingMachine(_, _, _)
CountingMachine(bytes, i, pending) ==
  IF i > Len(bytes) THEN pending
  ELSE LET b == bytes[i]
       IN IF pending > 0
          THEN IF b \div 64 = 2
               THEN CountingMachine(bytes, i + 1, pending - 1)
               ELSE -1
          ELSE CountingMachine(bytes, i + 1,
                 IF b \div 16 = 15 THEN 3
                 ELSE IF b \div 16 = 14 THEN 2
                 ELSE IF b \div 16 \in {12, 13} THEN 1
                 ELSE 0)

CountingValid(bytes) == CountingMachine(bytes, 1, 0) # -1

\* C12 as stated: the validator's verdict on a byte sequence is that of the
\* continuation-counting machine (top nibble F awaits 3 continuation bytes,
\* E 2, C or D 1, any other byte stands alone; an awaited byte must be
\* 10xxxxxx; input ending with bytes awaited is valid).
C12_SameAsCountingMachine ==
  call.op = "utf8_validate" =>
    ((call.state # UTF8_REJECT) <=> CountingValid(call.str))

\* C12 amended: a byte sequence the validator does not reject is valid for
\* the continuation-counting machine (the validator rejects more).
C12_ValidImpliesCountingValid ==
  call.op = "utf8_validate" =>
    ((call.state # UTF8_REJECT) => CountingValid(call.str))

\* a complete four-byte sequence, accepted by both
C12_Witness ==
  /\ call.op = "utf8_validate"
  /\ call.str = <<240, 144, 128, 128>>
  /\ call.state = UTF8_ACCEPT
  /\ CountingValid(call.str)

\* C16: rejection is final: no byte is examined after the one that gave
\* REJECT, a run started in REJECT ends in REJECT, a buffer with a rejected
\* prefix is rejected and every extension of a rejected buffer is rejected.
C16_RejectIsFinal ==
  /\ call.op = "utf8_validate" =>
       /\ (\E k \in 0..Len(call.str) :
             utf8_validate(UTF8_ACCEPT, Take(call.str, k), k) = UTF8_REJECT)
            => call.state = UTF8_REJECT
       /\ call.state = UTF8_REJECT =>
            \A b \in Utf8Bytes :
              utf8_validate(UTF8_ACCEPT, Append(call.str, b),
                            Len(call.str) + 1) = UTF8_REJECT
  /\ call.op = "utf8_validate_from" =>
       /\ call.start = UTF8_REJECT => call.state = UTF8_REJECT
       /\ \A j \in 1..(Len(call.steps) - 1) :
            call.steps[j].state # UTF8_REJECT
       /\ (\E j \in 1..Len(call.steps) : call.steps[j].state = UTF8_REJECT)
            => call.state = UTF8_REJECT

\* a run started in REJECT on a byte that UTF8_ACCEPT would take
C16_Witness ==
  /\ call.op = "utf8_validate_from"
  /\ call.start = UTF8_REJECT
  /\ call.str = <<65, 65>>
  /\ Len(call.steps) = 1
  /\ call.state = UTF8_REJECT

\* C18: from every state 0..8 and for every byte, the class read is in
\* 0..11, the index read is in 256..399 and the state stored is in 0..8.
C18_TableInBounds ==
  call.op = "utf8_validate_from" =>
    /\ call.state \in Utf8States
    /\ \A j \in 1..Len(call.steps) :
         /\ call.steps[j].type \in 0..11
         /\ call.steps[j].index \in 256..399
         /\ call.steps[j].index + 1 \in DOMAIN utf8d
         /\ call.steps[j].state \in Utf8States

\* the last state on the byte of the highest class
C18_Witness ==
  /\ call.op = "utf8_validate_from"
  /\ call.start = 8
  /\ call.str = <<240>>
  /\ Len(call.steps) = 1
  /\ call.steps[1].type = 11
  /\ call.steps[1].index = 395

\* C13: for charsets X and Y and a text in X that is fully representable
\* in both, the strict conversion to Y and back to X succeeds and returns
\* exactly the text.
C13_RoundTrip ==
  (/\ call.op = "convert_round_trip"
   /\ call.X \in iconv_charsets
   /\ call.Y \in iconv_charsets
   /\ Unbounded(call.Y, call.X, call.bytes).errno = "")
    => /\ call.inner_ok
       /\ call.outer_ok
       /\ call.outer_out = call.bytes

\* what line i of the document is when written in its encoding, with the
\* signature in front of the first line of a document that has one
EncodedLine(self, i) ==
  (IF i = 1 /\ self.bom THEN f_get_charset_bom(self.encoding) ELSE <<>>)
    \o (IF self.encoding \notin {NIL, "UTF-8"}
        THEN Unbounded(self.encoding, "UTF-8", self.lines[i]).out
        ELSE self.lines[i])

\* C17: when Doc:save is left, by return or by error, self.lines is the
\* line table it was called with, whether the wrapped save succeeded or
\* raised or a line failed to convert; the wrapped save, when it runs,
\* sees the encoded lines, the signature in front of the first.
C17_SaveKeepsLines ==
  call.op = "doc_save" =>
    /\ call.lines = call.self.lines
    /\ call.saved =>
         /\ Len(call.seen) = Len(call.self.lines)
         /\ \A i \in 1..Len(call.seen) :
              call.seen[i] = EncodedLine(call.self, i)
    /\ call.raised <=> (~call.saved \/ call.save = "raise")

\* the wrapped save raised on encoded lines that differ from the document's
C17_Witness ==
  /\ call.op = "doc_save"
  /\ call.self.encoding = "ISO-8859-1"
  /\ call.self.lines = << <<195, 169>> >>
  /\ call.save = "raise"
  /\ call.saved
  /\ call.seen = << <<233>> >>
  /\ call.raised
  /\ call.lines = << <<195, 169>> >>

\* C14: every convert call ends, with the output or with an error: each
\* iteration of the loop either ends the call or leaves strictly fewer
\* bytes to convert, and with nothing left to convert the call returns.
C14_ConvertTerminates ==
  [][\A p \in Threads :
       (threads[p].pc = "convert_loop" /\ threads'[p] # threads[p])
         => \/ threads'[p].pc = "done"
            \/ /\ threads'[p].pc = "convert_loop"
               /\ threads'[p].iters = threads[p].iters + 1
               /\ Len(threads'[p].inbuf) < Len(threads[p].inbuf)]_vars

\* a lenient call on a text of illegal bytes only has returned
C14_Witness ==
  /\ threads[1].pc = "done"
  /\ threads[1].op = "convert"
  /\ threads[1].args.text = <<255, 255>>
  /\ threads[1].args.opts.strict = "false"
  /\ threads[1].args.from = "UTF-8"
  /\ threads[1].args.to = "UTF-8"
  /\ threads[1].iters = 1
  /\ ~threads[1].ret.ok

\* C15: the calls share no mutable state: whatever the interleaving, a call
\* returns what it returns when run alone and feeds only the session it
\* opened itself.
C15_CallsAreIndependent ==
  \A p \in Threads :
    /\ \A cd \in threads[p].fed : sessions[cd].owner = p
    /\ threads[p].pc = "done" =>
         LET a == threads[p].args
         IN /\ threads[p].op = "detect" =>
                 threads[p].ret = f_detect_string(a.string, a.ud).ret
            /\ threads[p].op = "bom" =>
                 threads[p].ret = f_get_charset_bom(a.charset)
            /\ threads[p].op = "convert" =>
                 LET r == f_convert(a.to, a.from, a.text, a.opts)
                 IN /\ threads[p].ret.ok = r.ok
                    /\ threads[p].ret.out = r.out
                    /\ threads[p].ret.msg = r.msg

\* both threads have converted, the second opened its session before the
\* first fed its own
C15_Witness ==
  /\ threads[1].pc = "done"
  /\ threads[2].pc = "done"
  /\ threads[1].op = "convert"
  /\ threads[2].op = "convert"
  /\ threads[1].conv = 1
  /\ threads[2].conv = 2
  /\ threads[1].fed = {1}
  /\ threads[2].fed = {2}
  /\ threads[1].args.to # threads[2].args.to
  /\ threads[1].ret.ok
  /\ threads[2].ret.ok

====
